---------------------------- MODULE Spec2Model ----------------------------
(***************************************************************************)
(* Pterodactyl -> Google Drive backup orchestrator.                        *)
(*                                                                         *)
(* Two variants of the program are in the repository:                      *)
(*   "index"   : src/index.js           (cron every 20 min, archive branch *)
(*               decided from the wall clock inside the cycle)             *)
(*   "part000" : src/unnamed/part_000   (enhanced version: archive flag    *)
(*               passed in, command listener, restore operations)          *)
(* The variant is chosen in Init and never changes.                        *)
(*                                                                         *)
(* Every `await` of the JavaScript is a suspension point: an action of     *)
(* the model is the code that runs from the completion of one awaited      *)
(* request up to the next await (or to the return of the function).        *)
(***************************************************************************)
EXTENDS Integers, Sequences, FiniteSets, TLC

VARIABLES variant, daysFolderId, alive, mainPc, runs,
          origin, mainFolder, daysFolder, staging, cyc,
          poll, rot, clock, op, fileName

vars == <<variant, daysFolderId, alive, mainPc, runs,
          origin, mainFolder, daysFolder, staging, cyc, poll, rot, clock, op,
          fileName>>

shared == <<origin, mainFolder, daysFolder, staging, fileName>>

\* What no step of a backup cycle changes: the configuration, the state of
\* the two functions studied on their own below (the poll loop of
\* waitForBackupCompletion, the rotation of one Drive folder), and the wall
\* clock; and the operation started from the command listener.
config == <<variant, daysFolderId, poll, rot, clock, op>>

(***************************************************************************)
(* Bounds of the model.                                                    *)
(***************************************************************************)
MaxRuns == 2
MaxOriginInit == 3
MaxFiles == 6
MaxTime == 4
MaxOps == 2

(***************************************************************************)
(* Program constants (config object).                                      *)
(***************************************************************************)
maxBackupsOnServer == 2
hardCodedOriginLimit == 3
maxBackups == 3
maxDailyBackups == 5
initialDelay == 30000
pollInterval == 10000
pollTimeout == 900000
graceSeconds == 60

Variants == {"index", "part000"}
Slots == {1, 2}
Null == 0
NoPath == <<>>

(***************************************************************************)
(* Small helpers on sequences.                                             *)
(***************************************************************************)
Range(s) == {s[i] : i \in 1..Len(s)}

Remove(s, x) == SelectSeq(s, LAMBDA y : y # x)

Take(s, n) == SubSeq(s, 1, IF n < Len(s) THEN n ELSE Len(s))

\* JavaScript Array.prototype.slice(n): the elements from index n (0-based) on.
Slice(s, n) == IF n >= Len(s) THEN <<>> ELSE SubSeq(s, n + 1, Len(s))

\* The backups / files present before the program is started: ids -n .. -1,
\* the most negative one the oldest.
OldestFirst(n) == [i \in 1..n |-> i - n - 1]
NewestFirst(n) == [i \in 1..n |-> -i]

(***************************************************************************)
(* One invocation of runBackupCycle.                                       *)
(***************************************************************************)
Terminal == {"done", "failed", "threw"}

\* The requests of a cycle that are counted: POST /backups, GET .../download,
\* the GET of the archive, drive.files.create in the main and the days folder.
Requests == {"create", "locator", "download", "uploadMain", "uploadDays"}

IdleCycle ==
  [pc |-> "idle", run |-> 0, isDailyBackup |-> FALSE, stamp |-> 0,
   backupId |-> Null, localPath |-> NoPath, listing |-> <<>>,
   deletes |-> 0, originDeletes |-> 0, staged |-> FALSE,
   threwAt |-> "", unlinkThrew |-> FALSE, deleteRejected |-> FALSE,
   leftStaging |-> FALSE, now |-> "", issued |-> [k \in Requests |-> 0]]

\* The request k of the cycle with record r has been issued once more.
Issue(r, k) == [r EXCEPT !.issued[k] = @ + 1]

Active(c) == cyc[c].pc \notin (Terminal \cup {"idle"})

\* `backup_${now.format('YYYY-MM-DD_HH-mm-ss')}.tar.gz` under tempDir: the path
\* is a function of the second the timestamp was read in.  A stamp stands for
\* one second of the wall clock; a cycle that reads the clock gets the stamp of
\* its own run, or the stamp another running cycle read within the same second.
StagingPath(stamp) == <<"backup", stamp>>

\* part_000 reads `now` at the entry of runBackupCycle: another cycle entered
\* in the same second has not yet slept through the initial delay of the poll.
SameSecondAtEntry(c) ==
  {cyc[d].stamp : d \in {e \in Slots \ {c} :
                          cyc[e].pc \in {"list", "deleteOldest", "create", "poll"}}}

\* index.js reads dayjs() when the download locator has arrived: another cycle
\* that read it in the same second is running with its staging path assigned.
SameSecondAtLocator(c) ==
  {cyc[d].stamp : d \in {e \in Slots \ {c} :
                          Active(e) /\ cyc[e].localPath # NoPath}}

Exists(path) == path \in staging

(***************************************************************************)
(* The catch block of runBackupCycle.  It runs synchronously after the     *)
(* throw up to its first await: with no backup id there is no await and    *)
(* (localPath being assigned only after the id) nothing to unlink.         *)
(***************************************************************************)
\* Mutant: the catch block without its compensating delete.
CatchNextPcNoCompensation(backupId) == "failed"

\* Mutant: the catch block deleting without the `if (backupId)` test.
CatchNextPcUnguarded(backupId) == "catchDelete"

CatchNextPc(backupId) == IF backupId # Null THEN "catchDelete" ELSE "failed"

\* Mutant: a failed create is tried again.
ThrowRetrying(r, step) ==
  [r EXCEPT !.threwAt = IF r.threwAt = "" THEN step ELSE r.threwAt,
            !.pc = IF step = "create" THEN "create" ELSE CatchNextPc(r.backupId)]

Throw(r, step) ==
  [r EXCEPT !.threwAt = IF r.threwAt = "" THEN step ELSE r.threwAt,
            !.pc = CatchNextPc(r.backupId)]

(***************************************************************************)
(* Pterodactyl API: list, rotate, create.                                  *)
(***************************************************************************)
\* GET /backups: the backups with their created_at (the position in creation
\* order stands for the timestamp).
ListPteroBackups == [i \in 1..Len(origin) |-> [id |-> origin[i], createdAt |-> i]]

\* backups.sort((a, b) => new Date(a.createdAt) - new Date(b.createdAt))[0]
OldestBackup(listing) ==
  CHOOSE b \in Range(listing) : \A o \in Range(listing) : b.createdAt <= o.createdAt

OriginLimit == IF variant = "index" THEN maxBackupsOnServer ELSE hardCodedOriginLimit

\* if (backups.length >= limit)
LimitReached(n) == n >= OriginLimit

\* The poll loop and the folder rotation at rest.
PollIdle ==
  [pc |-> "idle", t |-> 0, startTime |-> 0, elapsed |-> 0, topAt |-> 0,
   status |-> "none", latency |-> 0, allInProgress |-> TRUE,
   toleratedFailed |-> FALSE, caller |-> "waiting"]

RotIdle ==
  [pc |-> "idle", max |-> 0, before |-> <<>>, files |-> <<>>, deleted |-> {},
   failedAt |-> 0]

\* The command listener's operation at rest (n counts the operations started).
OpIdle ==
  [kind |-> "none", pc |-> "idle", n |-> 0, backupId |-> Null,
   localPath |-> NoPath, threwAt |-> "", unlinkThrew |-> FALSE,
   leftStaging |-> FALSE, deletes |-> 0, downloaded |-> FALSE]

\* Clock times of one day at which a schedule fires: '*/20 * * * *' in two
\* consecutive clock hours and at 23:40, '59 23 * * *' at 23:59.
Ticks == {"13:00", "13:20", "13:40", "14:00", "23:40", "at2359"}

\* The tick that follows a tick.
TickAfter(t) ==
  CASE t = "13:00" -> "13:20"
    [] t = "13:20" -> "13:40"
    [] t = "13:40" -> "14:00"
    [] t = "23:40" -> "at2359"
    [] OTHER -> t

\* dayjs format 'DD-MMM' and 'YYYY': the calendar day a clock reading lies in.
FormatDay(t) == IF t = "after2359" THEN "06-Nov-2026" ELSE "05-Nov-2026"

\* dayjs format 'hA': the hour on the 12-hour clock and AM/PM.  The minutes
\* are not part of it.  A reading that does not resolve the hour stands for
\* itself.
FormatHour(t) ==
  CASE t \in {"13:00", "13:20", "13:40"} -> "1PM"
    [] t = "14:00" -> "2PM"
    [] t \in {"23:40", "at2359"} -> "11PM"
    [] t = "after2359" -> "12AM"
    [] OTHER -> t

\* `${now.format('DD-MMM-hA')}.tar.gz`
MainFileName(t) == <<FormatDay(t), FormatHour(t)>>

\* `${now.format('DD-MMM-YYYY')}.tar.gz`
DailyFileName(t) == <<FormatDay(t)>>

\* The moment the names of a cycle are formatted from: `now`, read at the
\* entry of runBackupCycle in part_000; dayjs() inside the upload function in
\* index.js.
NameTime(r) == IF variant = "part000" THEN r.now ELSE clock

\* The files found in the folders at the start carry names of their own.
InitialNames ==
  [f \in ({"main"} \X Range(mainFolder)) \cup ({"days"} \X Range(daysFolder))
     |-> <<"earlier", f[2]>>]

Init ==
  /\ variant \in Variants
  /\ daysFolderId \in BOOLEAN
  /\ alive = TRUE
  /\ mainPc = "start"
  /\ runs = 0
  /\ \E n \in 0..MaxOriginInit : origin = OldestFirst(n)
  /\ mainFolder = NewestFirst(maxBackups)
  /\ daysFolder = NewestFirst(maxDailyBackups)
  /\ fileName = InitialNames
  /\ staging = {}
  /\ cyc = [c \in Slots |-> IdleCycle]
  /\ poll = PollIdle
  /\ rot = RotIdle
  /\ clock = "unmodelled"
  /\ op = OpIdle

\* Entry of runBackupCycle(isDailyBackup) up to the list request of createBackup.
StartCycle(c, flag) ==
  /\ alive
  /\ runs < MaxRuns
  /\ cyc[c].pc \in Terminal \cup {"idle"}
  /\ \A d \in Slots : d < c => Active(d)
  /\ runs' = runs + 1
  /\ \E s \in {runs + 1} \cup (IF variant = "part000" THEN SameSecondAtEntry(c) ELSE {}) :
       cyc' = [cyc EXCEPT ![c] = [IdleCycle EXCEPT !.pc = "list", !.run = runs + 1,
                                                   !.isDailyBackup = flag, !.stamp = s,
                                                   !.now = clock]]
  /\ UNCHANGED <<config, alive, shared>>

\* listPteroBackups / getAllBackups answered, then the length test of
\* deleteOldestPteroBackup / deleteOldestBackupIfLimitReached.
ListBackups(c) ==
  /\ alive
  /\ cyc[c].pc = "list"
  /\ \/ cyc' = [cyc EXCEPT ![c] =
                  [@ EXCEPT !.listing = ListPteroBackups,
                            !.pc = IF LimitReached(Len(ListPteroBackups))
                                   THEN "deleteOldest" ELSE "create"]]
     \/ cyc' = [cyc EXCEPT ![c] = Throw(@, "list")]
  /\ UNCHANGED <<config, alive, mainPc, runs, shared>>

\* Mutant: the failed delete of the oldest backup is logged and swallowed.
OldestDeleteFailedSwallowed(r) ==
  [r EXCEPT !.threwAt = "deleteOldest", !.pc = "create"]

\* The failed delete of the oldest backup leaves createBackup by the throw:
\* index.js does not catch it; part_000 logs it and throws it again.
OldestDeleteFailed(r) == Throw(r, "deleteOldest")

\* DELETE of the oldest listed backup (it fails when the backup is gone).
DeleteOldestBackup(c) ==
  /\ alive
  /\ cyc[c].pc = "deleteOldest"
  /\ LET oldest == OldestBackup(cyc[c].listing).id IN
     \/ /\ oldest \in Range(origin)
        /\ origin' = Remove(origin, oldest)
        /\ cyc' = [cyc EXCEPT ![c] = [@ EXCEPT !.pc = "create", !.listing = <<>>,
                                                !.originDeletes = @ + 1]]
     \/ /\ origin' = origin
        /\ cyc' = [cyc EXCEPT ![c] = OldestDeleteFailed([@ EXCEPT !.listing = <<>>,
                                                                   !.originDeletes = @ + 1])]
  /\ UNCHANGED <<config, alive, mainPc, runs, mainFolder, daysFolder, staging, fileName>>

\* POST /backups.
CreateBackup(c) ==
  /\ alive
  /\ cyc[c].pc = "create"
  /\ \/ /\ origin' = Append(origin, cyc[c].run)
        /\ cyc' = [cyc EXCEPT ![c] = Issue([@ EXCEPT !.backupId = cyc[c].run, !.pc = "poll",
                                                !.listing = <<>>], "create")]
     \/ /\ origin' = origin
        /\ cyc' = [cyc EXCEPT ![c] = Issue(Throw([@ EXCEPT !.listing = <<>>], "create"), "create")]
  /\ UNCHANGED <<config, alive, mainPc, runs, mainFolder, daysFolder, staging, fileName>>

\* waitForBackupCompletion as seen by the cycle: it returns the succeeded
\* backup, or throws (timeout, failed on server, transport error, 404 when the
\* backup is gone).  The loop itself is PollStep below.
WaitForBackupCompletion(c) ==
  /\ alive
  /\ cyc[c].pc = "poll"
  /\ \/ /\ cyc[c].backupId \in Range(origin)
        /\ cyc' = [cyc EXCEPT ![c] = [@ EXCEPT !.pc = "geturl"]]
     \/ cyc' = [cyc EXCEPT ![c] = Throw(@, "poll")]
  /\ UNCHANGED <<config, alive, mainPc, runs, shared>>

\* getBackupDownloadUrl, then the assignment of localPath.
GetBackupDownloadUrl(c) ==
  /\ alive
  /\ cyc[c].pc = "geturl"
  /\ \/ /\ cyc[c].backupId \in Range(origin)
        /\ \E s \in {cyc[c].stamp} \cup
                    (IF variant = "index" THEN SameSecondAtLocator(c) ELSE {}) :
             cyc' = [cyc EXCEPT ![c] = Issue([@ EXCEPT !.pc = "download", !.stamp = s,
                                                 !.localPath = StagingPath(s)], "locator")]
     \/ cyc' = [cyc EXCEPT ![c] = Issue(Throw(@, "geturl"), "locator")]
  /\ UNCHANGED <<config, alive, mainPc, runs, shared>>

\* downloadBackup: the request may fail before the write stream is opened;
\* createWriteStream creates the file, and a failed pipeline leaves it partial.
DownloadBackup(c) ==
  /\ alive
  /\ cyc[c].pc = "download"
  /\ \/ /\ staging' = staging
        /\ cyc' = [cyc EXCEPT ![c] = Issue(Throw(@, "download"), "download")]
     \/ /\ staging' = staging \cup {cyc[c].localPath}
        /\ cyc' = [cyc EXCEPT ![c] = Issue(Throw([@ EXCEPT !.staged = TRUE], "download"), "download")]
     \/ /\ staging' = staging \cup {cyc[c].localPath}
        /\ cyc' = [cyc EXCEPT ![c] = Issue([@ EXCEPT !.staged = TRUE, !.pc = "upload"], "download")]
  /\ UNCHANGED <<config, alive, mainPc, runs, origin, mainFolder, daysFolder, fileName>>

(***************************************************************************)
(* Local cleanup.  Both run synchronously after the preceding await.       *)
(***************************************************************************)
Returned(r, pc, stg) ==
  [r EXCEPT !.pc = pc,
            !.leftStaging = (r.localPath # NoPath /\ r.localPath \in stg)]

\* try block: if (fs.existsSync(localPath)) fs.unlinkSync(localPath); then the
\* completion message.  unlinkSync may throw, which enters the catch block.
TryUnlink(r) ==
  IF Exists(r.localPath)
  THEN {[rec |-> Returned(r, "done", staging \ {r.localPath}),
         stg |-> staging \ {r.localPath}],
        [rec |-> Throw([r EXCEPT !.unlinkThrew = TRUE], "unlink"), stg |-> staging]}
  ELSE {[rec |-> Returned(r, "done", staging), stg |-> staging]}

\* catch block: if (localPath && fs.existsSync(localPath)) fs.unlinkSync(localPath);
\* a throw here rejects the promise runBackupCycle returned.
CatchUnlink(r) ==
  IF r.localPath # NoPath /\ Exists(r.localPath)
  THEN {[rec |-> Returned(r, "failed", staging \ {r.localPath}),
         stg |-> staging \ {r.localPath}],
        [rec |-> Returned([r EXCEPT !.unlinkThrew = TRUE], "threw", staging),
         stg |-> staging]}
  ELSE {[rec |-> Returned(r, "failed", staging), stg |-> staging]}

(***************************************************************************)
(* Google Drive.                                                           *)
(***************************************************************************)
\* if (files.length > maxBackups) filesToDelete = files.slice(maxBackups)
\* Mutant: the slice starting one file too late.
FilesToDeleteOffByOne(files, max) ==
  IF Len(files) > max THEN Slice(files, max + 1) ELSE <<>>

FilesToDelete(files, max) == IF Len(files) > max THEN Slice(files, max) ELSE <<>>

\* The files left when the first k deletions of the loop have succeeded.
AfterDeleting(files, max, k) ==
  LET gone == Range(Take(FilesToDelete(files, max), k))
  IN  SelectSeq(files, LAMBDA f : f \notin gone)

\* isDailyBackupTime(): hour === 23 && minute === 59 of the wall clock at the
\* moment of the call.  Where the clock is not modelled the reading is free.
IsDailyBackupTime ==
  IF clock = "unmodelled" THEN BOOLEAN ELSE {clock = "at2359"}

\* What follows the upload to the main folder.
\*   part_000: cleanupOldBackups(mainFolderId, maxBackups)
\*   index.js: if (isDailyBackupTime()) { uploadToDaysFolder; cleanupOldDailyBackups },
\*             both of which return at once when no days folder is configured.
AfterMainUpload(atDailyMinute) ==
  IF variant = "part000" THEN "cleanupMain"
  ELSE IF atDailyMinute /\ daysFolderId THEN "uploadDays" ELSE "deletePtero"

\* Mutant: the archive branch taken on the flag alone.
AfterMainCleanupFlagOnly(r) ==
  IF r.isDailyBackup THEN "uploadDays" ELSE "deletePtero"

\* part_000: if (isDailyBackup && config.google.daysFolderId)
AfterMainCleanup(r) ==
  IF r.isDailyBackup /\ daysFolderId THEN "uploadDays" ELSE "deletePtero"

\* uploadToGoogleDrive into the main folder.  authorize() ends the process when
\* credentials.json cannot be read; statSync throws when the file is missing.
UploadToGoogleDrive(c) ==
  /\ cyc[c].pc = "upload"
  /\ alive
  /\ \/ /\ alive' = FALSE
        /\ UNCHANGED <<cyc, mainFolder, fileName>>
     \/ /\ cyc' = [cyc EXCEPT ![c] = Issue(Throw(@, "upload"), "uploadMain")]
        /\ UNCHANGED <<alive, mainFolder, fileName>>
     \/ /\ Exists(cyc[c].localPath)
        /\ \E atDailyMinute \in IsDailyBackupTime :
             cyc' = [cyc EXCEPT ![c] = Issue([@ EXCEPT !.pc = AfterMainUpload(atDailyMinute)], "uploadMain")]
        /\ mainFolder' = <<cyc[c].run>> \o mainFolder
        /\ fileName' = (<<"main", cyc[c].run>> :> MainFileName(NameTime(cyc[c]))) @@ fileName
        /\ UNCHANGED alive
  /\ UNCHANGED <<config, mainPc, runs, origin, daysFolder, staging>>

\* The upload of the same staging file into the days folder.
UploadToDaysFolder(c) ==
  /\ cyc[c].pc = "uploadDays"
  /\ alive
  /\ \/ /\ alive' = FALSE
        /\ UNCHANGED <<cyc, daysFolder, fileName>>
     \/ /\ cyc' = [cyc EXCEPT ![c] = Issue(Throw(@, "uploadDays"), "uploadDays")]
        /\ UNCHANGED <<alive, daysFolder, fileName>>
     \/ /\ Exists(cyc[c].localPath)
        /\ cyc' = [cyc EXCEPT ![c] = Issue([@ EXCEPT !.pc = "cleanupDays"], "uploadDays")]
        /\ daysFolder' = <<cyc[c].run>> \o daysFolder
        /\ fileName' = (<<"days", cyc[c].run>> :> DailyFileName(NameTime(cyc[c]))) @@ fileName
        /\ UNCHANGED alive
  /\ UNCHANGED <<config, mainPc, runs, origin, mainFolder, staging>>

\* cleanupOldDailyBackups / cleanupOldBackups(daysFolderId, maxDailyBackups):
\* the list (newest first), then one delete per file past the limit; the first
\* failed delete throws out of the loop (threwAt "cleanupDaysDelete"; a failed
\* list request is "cleanupDays").
CleanupOldDailyBackups(c) ==
  /\ cyc[c].pc = "cleanupDays"
  /\ alive
  /\ \/ /\ alive' = FALSE
        /\ UNCHANGED <<cyc, daysFolder>>
     \/ /\ cyc' = [cyc EXCEPT ![c] = Throw(@, "cleanupDays")]
        /\ UNCHANGED <<alive, daysFolder>>
     \/ \E k \in 0..Len(FilesToDelete(daysFolder, maxDailyBackups)) :
          /\ daysFolder' = AfterDeleting(daysFolder, maxDailyBackups, k)
          /\ cyc' = [cyc EXCEPT ![c] =
                       IF k = Len(FilesToDelete(daysFolder, maxDailyBackups))
                       THEN [@ EXCEPT !.pc = "deletePtero"]
                       ELSE Throw(@, "cleanupDaysDelete")]
          /\ UNCHANGED alive
  /\ UNCHANGED <<config, mainPc, runs, origin, mainFolder, staging, fileName>>

\* cleanupOldBackups on the main folder.  In index.js it is the last await of
\* the try block, so the local unlink follows it synchronously.
CleanupOldBackups(c) ==
  /\ cyc[c].pc = "cleanupMain"
  /\ alive
  /\ \/ /\ alive' = FALSE
        /\ UNCHANGED <<cyc, mainFolder, staging>>
     \/ /\ cyc' = [cyc EXCEPT ![c] = Throw(@, "cleanupMain")]
        /\ UNCHANGED <<alive, mainFolder, staging>>
     \/ \E k \in 0..Len(FilesToDelete(mainFolder, maxBackups)) :
          /\ mainFolder' = AfterDeleting(mainFolder, maxBackups, k)
          /\ IF k < Len(FilesToDelete(mainFolder, maxBackups))
             THEN /\ cyc' = [cyc EXCEPT ![c] = Throw(@, "cleanupMainDelete")]
                  /\ staging' = staging
             ELSE IF variant = "part000"
             THEN /\ cyc' = [cyc EXCEPT ![c] = [@ EXCEPT !.pc = AfterMainCleanup(cyc[c])]]
                  /\ staging' = staging
             ELSE \E o \in TryUnlink(cyc[c]) :
                  /\ cyc' = [cyc EXCEPT ![c] = o.rec]
                  /\ staging' = o.stg
          /\ UNCHANGED alive
  /\ UNCHANGED <<config, mainPc, runs, origin, daysFolder, fileName>>

(***************************************************************************)
(* Deleting the backup of the cycle from Pterodactyl.                      *)
(***************************************************************************)
\* The DELETE request of deleteBackupFromPtero: the origin afterwards, when
\* the panel accepts it (ok) and when it rejects it.
OriginAfterDelete(id, ok) == IF ok THEN Remove(origin, id) ELSE origin

\* deleteBackupFromPtero catches the rejection and logs it: the caller goes on
\* with the step that follows the call.
\* Mutant: deleteBackupFromPtero without its try/catch.
AfterDeleteRejectedRethrown(next) == "catch"

AfterDeleteRejected(next) == next

Deleted(r, ok) ==
  [r EXCEPT !.deletes = @ + 1, !.originDeletes = @ + 1,
            !.deleteRejected = @ \/ ~ok]

\* try block: await deleteBackupFromPtero(backupId).  In part_000 it is the
\* last await of the try block, so the local unlink follows it synchronously.
DeleteBackupFromPtero(c) ==
  /\ cyc[c].pc = "deletePtero"
  /\ alive
  /\ \E ok \in BOOLEAN :
       /\ ok => cyc[c].backupId \in Range(origin)
       /\ origin' = OriginAfterDelete(cyc[c].backupId, ok)
       /\ LET next == IF variant = "index" THEN "cleanupMain" ELSE "unlink"
              pc   == IF ok THEN next ELSE AfterDeleteRejected(next)
              r    == Deleted(cyc[c], ok)
          IN  IF pc = "unlink"
              THEN \E o \in TryUnlink(r) :
                     /\ cyc' = [cyc EXCEPT ![c] = o.rec]
                     /\ staging' = o.stg
              ELSE /\ cyc' = [cyc EXCEPT ![c] =
                                IF pc = next THEN [r EXCEPT !.pc = pc]
                                ELSE Throw(r, "deletePtero")]
                   /\ staging' = staging
  /\ UNCHANGED <<config, alive, mainPc, runs, mainFolder, daysFolder, fileName>>

\* catch block: if (backupId) await deleteBackupFromPtero(backupId); then the
\* unlink of the staging file.
CatchDelete(c) ==
  /\ cyc[c].pc = "catchDelete"
  /\ alive
  /\ \E ok \in BOOLEAN :
       /\ ok => cyc[c].backupId \in Range(origin)
       /\ origin' = OriginAfterDelete(cyc[c].backupId, ok)
       /\ \E o \in CatchUnlink(Deleted(cyc[c], ok)) :
            /\ cyc' = [cyc EXCEPT ![c] = o.rec]
            /\ staging' = o.stg
  /\ UNCHANGED <<config, alive, mainPc, runs, mainFolder, daysFolder, fileName>>

(***************************************************************************)
(* main(), the cron schedules and the command listener.                    *)
(***************************************************************************)
\* await runBackupCycle() of main, before anything is scheduled.
MainInitialBackup ==
  /\ mainPc = "start"
  /\ StartCycle(1, FALSE)
  /\ mainPc' = "initial"

\* Mutant: main registers the schedules without awaiting the initial cycle.
InitialCycleNotAwaited(r) == TRUE

\* `await runBackupCycle()` in main: the statements after it run once the
\* promise of the initial cycle (record r) has settled.
InitialCycleAwaited(r) == r.pc \in Terminal

\* The initial cycle has returned: main registers the schedules (and, in
\* part_000, the command listener).  A rejected initial cycle reaches
\* main().catch, which ends the process.
MainSchedule ==
  /\ alive
  /\ mainPc = "initial"
  /\ InitialCycleAwaited(cyc[1])
  /\ IF cyc[1].pc = "threw"
     THEN alive' = FALSE /\ mainPc' = mainPc
     ELSE alive' = alive /\ mainPc' = "scheduled"
  /\ UNCHANGED <<config, runs, shared, cyc>>

\* cron.schedule('*/20 * * * *', () => runBackupCycle(false))
CronTick(c) ==
  /\ mainPc = "scheduled"
  /\ StartCycle(c, FALSE)
  /\ UNCHANGED mainPc

\* Mutant: the daily schedule registered without the test of the days folder.
DailyScheduleAlwaysRegistered == variant = "part000"

\* part_000: if (config.google.daysFolderId) { cron.schedule('59 23 * * *', ...) }
\* index.js registers no daily schedule.
DailyScheduleRegistered == variant = "part000" /\ daysFolderId

\* cron.schedule('59 23 * * *', () => runBackupCycle(true)), registered in
\* part_000 only, and only with a days folder configured.
DailyTick(c) ==
  /\ mainPc = "scheduled"
  /\ DailyScheduleRegistered
  /\ StartCycle(c, TRUE)
  /\ UNCHANGED mainPc

\* The 'backup' command of part_000's command listener.
ManualBackup(c) ==
  /\ mainPc = "scheduled"
  /\ variant = "part000"
  /\ StartCycle(c, FALSE)
  /\ UNCHANGED mainPc

\* One step of a running cycle.
CycleStep(c) ==
  \/ ListBackups(c)
  \/ DeleteOldestBackup(c)
  \/ CreateBackup(c)
  \/ WaitForBackupCompletion(c)
  \/ GetBackupDownloadUrl(c)
  \/ DownloadBackup(c)
  \/ UploadToGoogleDrive(c)
  \/ CleanupOldBackups(c)
  \/ UploadToDaysFolder(c)
  \/ CleanupOldDailyBackups(c)
  \/ DeleteBackupFromPtero(c)
  \/ CatchDelete(c)

\* A trigger fires: the cron tick, the daily tick or the 'backup' command.
Trigger(c) ==
  \/ CronTick(c)
  \/ DailyTick(c)
  \/ ManualBackup(c)

Next ==
  \/ MainInitialBackup
  \/ MainSchedule
  \/ \E c \in Slots : Trigger(c)
  \/ \E c \in Slots : CycleStep(c)

\* The program from its start.
Spec == Init /\ [][Next]_vars

\* The program once main() has registered the schedules (the state an initial
\* cycle that failed at its first request leaves behind): triggers may fire
\* while a cycle is outstanding.
InitScheduled ==
  /\ variant \in Variants
  /\ daysFolderId \in BOOLEAN
  /\ alive = TRUE
  /\ mainPc = "scheduled"
  /\ runs = 0
  /\ \E n \in 0..MaxOriginInit : origin = OldestFirst(n)
  /\ mainFolder = NewestFirst(maxBackups)
  /\ daysFolder = NewestFirst(maxDailyBackups)
  /\ fileName = InitialNames
  /\ staging = {}
  /\ cyc = [c \in Slots |-> IdleCycle]
  /\ poll = PollIdle
  /\ rot = RotIdle
  /\ clock = "unmodelled"
  /\ op = OpIdle

NextOverlap ==
  \/ \E c \in Slots : Trigger(c)
  \/ \E c \in Slots : CycleStep(c)

SpecOverlap == InitScheduled /\ [][NextOverlap]_vars

\* process.on('SIGINT') and the 'exit' command: the log stream is ended and
\* process.exit(0) is called at once, whatever the cycles are doing.
Shutdown ==
  /\ alive
  /\ alive' = FALSE
  /\ mainPc' = "exited"
  /\ UNCHANGED <<config, runs, shared, cyc>>

NextShutdown ==
  \/ Next
  \/ Shutdown

\* The program from its start, with the operator's shutdown.
SpecShutdown == Init /\ [][NextShutdown]_vars

(***************************************************************************)
(* One evening of the scheduled program: the wall clock passes from before *)
(* 23:59 through the minute 23:59 to after it.                             *)
(***************************************************************************)
InitDay ==
  /\ variant \in Variants
  /\ daysFolderId = TRUE
  /\ alive = TRUE
  /\ mainPc = "scheduled"
  /\ runs = 0
  /\ \E n \in {0, MaxOriginInit} : origin = OldestFirst(n)
  /\ mainFolder = NewestFirst(maxBackups)
  /\ daysFolder = NewestFirst(maxDailyBackups)
  /\ fileName = InitialNames
  /\ staging = {}
  /\ cyc = [c \in Slots |-> IdleCycle]
  /\ poll = PollIdle
  /\ rot = RotIdle
  /\ clock = "before2359"
  /\ op = OpIdle

\* The '59 23 * * *' callback has run in this minute.
DailyTickFired == \E c \in Slots : cyc[c].isDailyBackup

\* The minute changes.  node-cron runs the callback of a schedule in the
\* minute it matches: where '59 23 * * *' is registered, 23:59 does not pass
\* without it.
ClockAdvance ==
  /\ alive
  /\ \/ /\ clock = "before2359"
        /\ clock' = "at2359"
     \/ /\ clock = "at2359"
        /\ variant = "part000" => DailyTickFired
        /\ clock' = "after2359"
  /\ UNCHANGED <<variant, daysFolderId, alive, mainPc, runs, shared, cyc, poll, rot, op>>

\* '*/20 * * * *' matches the minutes 0, 20 and 40 only.
CronTickDay(c) ==
  /\ clock \in {"before2359", "after2359"}
  /\ CronTick(c)

\* '59 23 * * *' matches once, in the minute 23:59.
DailyTickDay(c) ==
  /\ clock = "at2359"
  /\ ~DailyTickFired
  /\ DailyTick(c)

NextDay ==
  \/ ClockAdvance
  \/ \E c \in Slots : CronTickDay(c)
  \/ \E c \in Slots : DailyTickDay(c)
  \/ \E c \in Slots : ManualBackup(c)
  \/ \E c \in Slots : CycleStep(c)

SpecDay == InitDay /\ [][NextDay]_vars

(***************************************************************************)
(* The operations of part_000's command listener:                          *)
(*   "restore" : upload <id>  restoreBackupFromDrive                       *)
(*   "dskdn"   : dskdn <id>   diskDownloadFromDrive                        *)
(*   "dskup"   : dskup <path> diskUploadToServer                           *)
(*   "driup"   : driup <path> driveUploadFromLocal                         *)
(***************************************************************************)
OpKinds == {"restore", "dskdn", "dskup", "driup"}
FromDrive == {"restore", "dskdn"}
OpTerminal == {"done", "failed", "threw"}

\* restore_<fileName>, download_<fileName>, disk_<base>_<timestamp>.tar.gz
OpStagingPath(kind, n) == <<kind, n>>

\* Ids the operation n gives to what it creates (backup on the origin, file in
\* the main folder): apart from the ids of the cycles.
OpId(n) == 100 + n

\* The local file named on the command line of driveUploadFromLocal.
LocalFile == <<"local">>

\* if (!fs.existsSync(localFilePath)) throw new Error('File not found')
LocalFileFound(stg) == LocalFile \in stg

OpReturned(r, pc, stg) ==
  [r EXCEPT !.pc = pc,
            !.leftStaging = (r.localPath # NoPath /\ r.localPath \in stg)]

\* The catch blocks.  restoreBackupFromDrive and diskDownloadFromDrive unlink
\* the staging file when it exists (a throw there rejects the promise);
\* diskUploadToServer and driveUploadFromLocal only log.
OpThrow(r, step, stg) ==
  LET t == [r EXCEPT !.threwAt = IF r.threwAt = "" THEN step ELSE r.threwAt] IN
  IF t.kind \in FromDrive /\ t.localPath # NoPath /\ t.localPath \in stg
  THEN {[rec |-> OpReturned(t, "failed", stg \ {t.localPath}),
         stg |-> stg \ {t.localPath}],
        [rec |-> OpReturned([t EXCEPT !.unlinkThrew = TRUE], "threw", stg),
         stg |-> stg]}
  ELSE {[rec |-> OpReturned(t, "failed", stg), stg |-> stg]}

\* try block: if (fs.existsSync(localPath)) fs.unlinkSync(localPath), then the
\* success message.
OpTryUnlink(r, stg) ==
  IF r.localPath \in stg
  THEN {[rec |-> OpReturned(r, "done", stg \ {r.localPath}),
         stg |-> stg \ {r.localPath}]} \cup OpThrow(r, "unlink", stg)
  ELSE {[rec |-> OpReturned(r, "done", stg), stg |-> stg]}

InitOps ==
  /\ variant = "part000"
  /\ daysFolderId \in BOOLEAN
  /\ alive = TRUE
  /\ mainPc = "scheduled"
  /\ runs = 0
  /\ \E n \in 0..MaxOriginInit : origin = OldestFirst(n)
  /\ \E n \in 0..maxBackups : mainFolder = NewestFirst(n)
  /\ daysFolder = NewestFirst(maxDailyBackups)
  /\ fileName = InitialNames
  /\ staging \in SUBSET {LocalFile}
  /\ cyc = [c \in Slots |-> IdleCycle]
  /\ poll = PollIdle
  /\ rot = RotIdle
  /\ clock = "unmodelled"
  /\ op = OpIdle

\* The Drive name of an operation's upload: diskUploadToServer uses the name
\* of its staging file, disk_<base>_<timestamp>.tar.gz; driveUploadFromLocal
\* uses path.basename of the path it was given.
OpFileName(r) == IF r.kind = "dskup" THEN <<"disk", r.n>> ELSE <<"basename">>

OpFrame == <<variant, daysFolderId, mainPc, runs, daysFolder, cyc, poll, rot, clock>>

\* A command line arrives.  driveUploadFromLocal first tests that the local
\* file exists.
StartOp(kind) ==
  /\ alive
  /\ mainPc = "scheduled"
  /\ variant = "part000"
  /\ op.pc \in OpTerminal \cup {"idle"}
  /\ op.n < MaxOps
  /\ LET r == [OpIdle EXCEPT !.kind = kind, !.n = op.n + 1] IN
     \/ /\ kind = "driup" => LocalFileFound(staging)
        /\ op' = [r EXCEPT !.pc = IF kind \in FromDrive THEN "fileInfo"
                                  ELSE IF kind = "dskup" THEN "create" ELSE "upload"]
     \/ /\ kind = "driup"
        /\ ~LocalFileFound(staging)
        /\ op' = [r EXCEPT !.pc = "failed", !.threwAt = "notFound"]
  /\ UNCHANGED <<OpFrame, alive, shared>>

\* initGoogleDrive (authorize may end the process), then drive.files.get for
\* the name of the file, then localPath is assigned.
OpFileInfo ==
  /\ alive
  /\ op.pc = "fileInfo"
  /\ \/ alive' = FALSE /\ UNCHANGED op
     \/ /\ \E o \in OpThrow(op, "fileInfo", staging) : op' = o.rec
        /\ UNCHANGED alive
     \/ /\ op' = [op EXCEPT !.pc = "driveGet",
                            !.localPath = OpStagingPath(op.kind, op.n)]
        /\ UNCHANGED alive
  /\ UNCHANGED <<OpFrame, shared>>

\* Mutant: downloadFromGoogleDrive returning without awaiting the pipeline.
DownloadNotAwaited(r) == [r EXCEPT !.pc = "getUploadUrl"]

\* The media response has arrived: downloadFromGoogleDrive awaits the pipeline
\* into the staging file before it returns.
DownloadAwaited(r) == [r EXCEPT !.pc = "pipeline"]

\* downloadFromGoogleDrive: initGoogleDrive, createWriteStream(localPath)
\* (which creates the file), then the media request.
OpDriveGet ==
  /\ alive
  /\ op.pc = "driveGet"
  /\ \/ alive' = FALSE /\ UNCHANGED <<op, staging>>
     \/ /\ \E o \in OpThrow(op, "driveGet", staging \cup {op.localPath}) :
             op' = o.rec /\ staging' = o.stg
        /\ UNCHANGED alive
     \/ /\ op' = DownloadAwaited(op)
        /\ staging' = staging \cup {op.localPath}
        /\ UNCHANGED alive
  /\ UNCHANGED <<OpFrame, origin, mainFolder, fileName>>

\* await pipeline(response.data, dest)
OpPipeline ==
  /\ alive
  /\ op.pc = "pipeline"
  /\ \/ \E o \in OpThrow(op, "pipeline", staging) : op' = o.rec /\ staging' = o.stg
     \/ op' = [op EXCEPT !.pc = "getUploadUrl", !.downloaded = TRUE] /\ staging' = staging
  /\ UNCHANGED <<OpFrame, alive, origin, mainFolder, fileName>>

\* uploadBackupToServer: GET /files/upload
OpGetUploadUrl ==
  /\ alive
  /\ op.pc = "getUploadUrl"
  /\ \/ \E o \in OpThrow(op, "getUploadUrl", staging) : op' = o.rec /\ staging' = o.stg
     \/ op' = [op EXCEPT !.pc = "postFile"] /\ staging' = staging
  /\ UNCHANGED <<OpFrame, alive, origin, mainFolder, fileName>>

\* uploadBackupToServer: POST of the file, then the unlink of the try block.
OpPostFile ==
  /\ alive
  /\ op.pc = "postFile"
  /\ \/ \E o \in OpThrow(op, "postFile", staging) : op' = o.rec /\ staging' = o.stg
     \/ \E o \in OpTryUnlink(op, staging) : op' = o.rec /\ staging' = o.stg
  /\ UNCHANGED <<OpFrame, alive, origin, mainFolder, fileName>>

\* diskUploadToServer: POST /backups for the given path (no rotation of the
\* origin precedes it).
OpCreate ==
  /\ alive
  /\ op.pc = "create"
  /\ \/ /\ \E o \in OpThrow(op, "create", staging) : op' = o.rec
        /\ origin' = origin
     \/ /\ op' = [op EXCEPT !.pc = "poll", !.backupId = OpId(op.n)]
        /\ origin' = Append(origin, OpId(op.n))
  /\ UNCHANGED <<OpFrame, alive, mainFolder, staging, fileName>>

\* diskUploadToServer: waitForBackupCompletion(backupId)
OpWait ==
  /\ alive
  /\ op.pc = "poll"
  /\ \/ \E o \in OpThrow(op, "poll", staging) : op' = o.rec
     \/ op' = [op EXCEPT !.pc = "geturl"]
  /\ UNCHANGED <<OpFrame, alive, shared>>

\* diskUploadToServer: getBackupDownloadUrl, then localPath is assigned.
OpGetUrl ==
  /\ alive
  /\ op.pc = "geturl"
  /\ \/ \E o \in OpThrow(op, "geturl", staging) : op' = o.rec
     \/ op' = [op EXCEPT !.pc = "download",
                         !.localPath = OpStagingPath(op.kind, op.n)]
  /\ UNCHANGED <<OpFrame, alive, shared>>

\* diskUploadToServer: downloadBackup (as in the cycle).
OpDownload ==
  /\ alive
  /\ op.pc = "download"
  /\ \/ \E o \in OpThrow(op, "download", staging) : op' = o.rec /\ staging' = o.stg
     \/ \E o \in OpThrow(op, "download", staging \cup {op.localPath}) :
          op' = o.rec /\ staging' = o.stg
     \/ op' = [op EXCEPT !.pc = "upload"] /\ staging' = staging \cup {op.localPath}
  /\ UNCHANGED <<OpFrame, alive, origin, mainFolder, fileName>>

\* Mutant: every operation that uploaded goes on to the origin delete.
AfterOpUploadAlwaysDeletes(r, stg) == [r EXCEPT !.pc = "deletePtero"]

\* After the upload: diskUploadToServer deletes its backup on the origin;
\* driveUploadFromLocal prints its message and returns.
AfterOpUpload(r, stg) ==
  IF r.kind = "dskup" THEN [r EXCEPT !.pc = "deletePtero"]
  ELSE OpReturned(r, "done", stg)

\* uploadToGoogleDrive(path, mainFolderId, fileName) of diskUploadToServer and
\* of driveUploadFromLocal, which returns after it.
OpUpload ==
  /\ alive
  /\ op.pc = "upload"
  /\ \/ alive' = FALSE /\ UNCHANGED <<op, mainFolder, fileName>>
     \/ /\ \E o \in OpThrow(op, "upload", staging) : op' = o.rec
        /\ UNCHANGED <<alive, mainFolder, fileName>>
     \/ /\ mainFolder' = <<OpId(op.n)>> \o mainFolder
        /\ fileName' = (<<"main", OpId(op.n)>> :> OpFileName(op)) @@ fileName
        /\ op.kind = "driup" => LocalFileFound(staging)
        /\ op' = AfterOpUpload(op, staging)
        /\ UNCHANGED alive
  /\ UNCHANGED <<OpFrame, origin, staging>>

\* diskUploadToServer: deleteBackupFromPtero, then the unlink of the try block.
OpDeletePtero ==
  /\ alive
  /\ op.pc = "deletePtero"
  /\ \E ok \in BOOLEAN :
       /\ ok => op.backupId \in Range(origin)
       /\ origin' = OriginAfterDelete(op.backupId, ok)
  /\ \E o \in OpTryUnlink([op EXCEPT !.deletes = @ + 1], staging) :
       op' = o.rec /\ staging' = o.stg
  /\ UNCHANGED <<OpFrame, alive, mainFolder, fileName>>

OpStep ==
  \/ OpFileInfo
  \/ OpDriveGet
  \/ OpPipeline
  \/ OpGetUploadUrl
  \/ OpPostFile
  \/ OpCreate
  \/ OpWait
  \/ OpGetUrl
  \/ OpDownload
  \/ OpUpload
  \/ OpDeletePtero

NextOps ==
  \/ \E kind \in OpKinds : StartOp(kind)
  \/ OpStep

\* The scheduled program of part_000 receiving commands.
SpecOps == InitOps /\ [][NextOps]_vars

(***************************************************************************)
(* The scheduled program of part_000, no days folder configured, whose     *)
(* operator gives dskup commands while the first cycle is polling:         *)
(* diskUploadToServer creates backups on the origin without rotating it.   *)
(* The origin and the Drive folders are empty at the start: every backup   *)
(* on the origin was created by an invocation of the behaviour.            *)
(***************************************************************************)
InitRace ==
  /\ variant = "part000"
  /\ daysFolderId = FALSE
  /\ alive = TRUE
  /\ mainPc = "scheduled"
  /\ runs = 0
  /\ origin = <<>>
  /\ mainFolder = <<>>
  /\ daysFolder = <<>>
  /\ fileName = InitialNames
  /\ staging = {}
  /\ cyc = [c \in Slots |-> IdleCycle]
  /\ poll = PollIdle
  /\ rot = RotIdle
  /\ clock = "unmodelled"
  /\ op = OpIdle

\* The steps of diskUploadToServer.
DiskUploadStep ==
  \/ OpCreate
  \/ OpWait
  \/ OpGetUrl
  \/ OpDownload
  \/ OpUpload
  \/ OpDeletePtero

\* The steps of a cycle that has no archive branch.
RegularCycleStep(c) ==
  \/ ListBackups(c)
  \/ DeleteOldestBackup(c)
  \/ CreateBackup(c)
  \/ WaitForBackupCompletion(c)
  \/ GetBackupDownloadUrl(c)
  \/ DownloadBackup(c)
  \/ UploadToGoogleDrive(c)
  \/ CleanupOldBackups(c)
  \/ DeleteBackupFromPtero(c)
  \/ CatchDelete(c)

\* A 20-minute tick that arrives while no command is being carried out.
RaceTick(c) ==
  /\ op.pc \in OpTerminal \cup {"idle"}
  /\ CronTick(c)

\* The command dskup <path>, given while the first cycle is waiting for its
\* backup to complete.
RaceCommand ==
  /\ runs = 1
  /\ \E c \in Slots : cyc[c].pc = "poll"
  /\ StartOp("dskup")

NextRace ==
  \/ \E c \in Slots : RaceTick(c)
  \/ \E c \in Slots : RegularCycleStep(c)
  \/ RaceCommand
  \/ DiskUploadStep

SpecRace == InitRace /\ [][NextRace]_vars

(***************************************************************************)
(* waitForBackupCompletion on its own, with the clock in milliseconds.     *)
(* poll.t is the time since the function was called.  A timer fires when   *)
(* its delay has passed; a status request takes one of ReadLatencies.      *)
(***************************************************************************)
ReadLatencies == {250, 5000, 10000}

\* is_successful / completed_at of the payload: null, false, true with
\* completed_at, true without completed_at.
Statuses == {"inProgress", "failed", "succeeded", "succeededNoCompletedAt"}

\* Math.round(ms / 1000) for ms >= 0.
RoundToSeconds(ms) == (ms + 500) \div 1000

\* Mutant: the timeout test with >= for >.
TimedOutInclusive(ms) == ms >= pollTimeout

\* if (Date.now() - startTime > config.pollTimeout)
TimedOut(ms) == ms > pollTimeout

\* Mutant: the grace test with < for <=.
GraceToleratesExclusive(elapsed) == elapsed < graceSeconds

\* backup.is_successful === false && elapsed <= 60
GraceTolerates(elapsed) == elapsed <= graceSeconds

\* Mutant: the success test without completed_at.
CompletedIgnoringCompletedAt(st) == st \in {"succeeded", "succeededNoCompletedAt"}

\* if (backup.is_successful === true && backup.completed_at)
Completed(st) == st = "succeeded"

\* The top of the while loop at time `at`: elapsed is computed, the timeout is
\* tested, and the status request is sent.
LoopTop(r, at) ==
  [r EXCEPT !.t = at,
            !.elapsed = RoundToSeconds(at - r.startTime),
            !.topAt = at,
            !.status = "pending",
            !.pc = IF TimedOut(at - r.startTime) THEN "timeout" ELSE "reading"]

InitPoll ==
  /\ variant \in Variants
  /\ daysFolderId = FALSE
  /\ alive = TRUE
  /\ mainPc = "start"
  /\ runs = 0
  /\ origin = <<>>
  /\ mainFolder = <<>>
  /\ daysFolder = <<>>
  /\ fileName = InitialNames
  /\ staging = {}
  /\ cyc = [c \in Slots |-> IdleCycle]
  /\ poll = [PollIdle EXCEPT !.pc = "initialDelay"]
  /\ rot = RotIdle
  /\ clock = "unmodelled"
  /\ op = OpIdle

\* Mutant: the loop entered without the initial delay.
AfterNoDelay(t) == t

\* await new Promise(resolve => setTimeout(resolve, config.initialDelay))
AfterInitialDelay(t) == t + initialDelay

\* Mutant: the timeout budget measured from the call of the function.
StartTimeAtCall(now) == 0

\* const startTime = Date.now(), the statement after the initial delay.
StartTime(now) == now

\* await setTimeout(initialDelay); startTime = Date.now(); first loop top.
PollInitialDelay ==
  /\ poll.pc = "initialDelay"
  /\ poll' = LoopTop([poll EXCEPT !.startTime = StartTime(AfterInitialDelay(poll.t))],
                     AfterInitialDelay(poll.t))
  /\ UNCHANGED <<variant, daysFolderId, alive, mainPc, runs, shared, cyc, rot, clock, op>>

\* The status request is answered (or fails), and the rest of the iteration.
PollRead ==
  /\ poll.pc = "reading"
  /\ \E lat \in ReadLatencies :
       LET at == poll.t + lat
           r  == [poll EXCEPT !.t = at, !.latency = lat] IN
       \/ poll' = [r EXCEPT !.status = "error", !.pc = "error"]
       \/ \E st \in Statuses :
            LET q == [r EXCEPT !.status = st,
                               !.allInProgress = @ /\ st = "inProgress"] IN
            poll' =
              IF Completed(st) THEN [q EXCEPT !.pc = "returned"]
              ELSE IF st = "inProgress" THEN [q EXCEPT !.pc = "sleeping"]
              ELSE IF st = "failed" /\ GraceTolerates(q.elapsed)
                   THEN [q EXCEPT !.pc = "sleeping", !.toleratedFailed = TRUE]
              ELSE IF st = "failed" THEN [q EXCEPT !.pc = "failed"]
              ELSE [LoopTop(q, at) EXCEPT !.status = st]
  /\ UNCHANGED <<variant, daysFolderId, alive, mainPc, runs, shared, cyc, rot, clock, op>>

\* await setTimeout(pollInterval); continue.
PollSleepDone ==
  /\ poll.pc = "sleeping"
  /\ poll' = LoopTop(poll, poll.t + pollInterval)
  /\ UNCHANGED <<variant, daysFolderId, alive, mainPc, runs, shared, cyc, rot, clock, op>>

\* The caller of waitForBackupCompletion: `await waitForBackupCompletion(id);
\* const downloadUrl = await getBackupDownloadUrl(id)` inside a try block.  A
\* return is followed by the request for the download locator; a throw
\* (timeout, failed on server, transport error) leaves the try block.
PollCaller ==
  /\ poll.pc \in {"returned", "timeout", "failed", "error"}
  /\ poll.caller = "waiting"
  /\ poll' = [poll EXCEPT !.caller = IF poll.pc = "returned" THEN "locator" ELSE "caught"]
  /\ UNCHANGED <<variant, daysFolderId, alive, mainPc, runs, shared, cyc, rot, clock, op>>

NextPoll ==
  \/ PollInitialDelay
  \/ PollRead
  \/ PollSleepDone
  \/ PollCaller

SpecPoll == InitPoll /\ [][NextPoll]_vars

(***************************************************************************)
(* cleanupOldBackups / cleanupOldDailyBackups on one Drive folder.         *)
(***************************************************************************)
\* What drive.files.list answers with orderBy 'createdTime desc': the files of
\* the folder, newest first (files with equal createdTime in any order).
Listings(n) ==
  {[i \in 1..n |-> [id |-> i, createdTime |-> f[i]]] :
     f \in {g \in [1..n -> 1..MaxTime] :
              \A i, j \in 1..n : i < j => g[i] >= g[j]}}

InitRotate ==
  /\ variant \in Variants
  /\ daysFolderId = TRUE
  /\ alive = TRUE
  /\ mainPc = "start"
  /\ runs = 0
  /\ origin = <<>>
  /\ mainFolder = <<>>
  /\ daysFolder = <<>>
  /\ fileName = InitialNames
  /\ staging = {}
  /\ cyc = [c \in Slots |-> IdleCycle]
  /\ poll = PollIdle
  /\ clock = "unmodelled"
  /\ op = OpIdle
  /\ \E n \in 0..MaxFiles, m \in {maxBackups, maxDailyBackups} :
       \E l \in Listings(n) :
         rot = [RotIdle EXCEPT !.pc = "ready", !.max = m, !.before = l, !.files = l]

\* One call of the cleanup: the list request, then one delete per file of
\* filesToDelete; a failed request throws out of the function.
RotateFolder ==
  /\ rot.pc = "ready"
  /\ \/ rot' = [rot EXCEPT !.pc = "error"]
     \/ \E k \in 0..Len(FilesToDelete(rot.files, rot.max)) :
          rot' = [rot EXCEPT
                    !.files = AfterDeleting(rot.files, rot.max, k),
                    !.deleted = Range(Take(FilesToDelete(rot.files, rot.max), k)),
                    !.failedAt = IF k < Len(FilesToDelete(rot.files, rot.max))
                                 THEN k + 1 ELSE 0,
                    !.pc = IF k < Len(FilesToDelete(rot.files, rot.max))
                           THEN "error" ELSE "done"]
  /\ UNCHANGED <<variant, daysFolderId, alive, mainPc, runs, shared, cyc, poll, clock, op>>

NextRotate == RotateFolder

SpecRotate == InitRotate /\ [][NextRotate]_vars

(***************************************************************************)
(* The scheduled program from some tick of the day on: the schedules fire  *)
(* at every tick, and a cycle is over before the next cycle starts.        *)
(***************************************************************************)
InitNames ==
  /\ variant \in Variants
  /\ daysFolderId \in BOOLEAN
  /\ alive = TRUE
  /\ mainPc = "scheduled"
  /\ runs = 0
  /\ \E n \in {0, MaxOriginInit} : origin = OldestFirst(n)
  /\ mainFolder = NewestFirst(maxBackups)
  /\ daysFolder = NewestFirst(maxDailyBackups)
  /\ fileName = InitialNames
  /\ staging = {}
  /\ cyc = [c \in Slots |-> IdleCycle]
  /\ poll = PollIdle
  /\ rot = RotIdle
  /\ clock \in Ticks
  /\ op = OpIdle

\* The cron callback of the present tick has run.
TickFired == \E c \in Slots : cyc[c].pc # "idle" /\ cyc[c].now = clock

\* cron.schedule('*/20 * * * *', ...) at the present tick.
CronTickNames(c) ==
  /\ clock # "at2359"
  /\ ~TickFired
  /\ \A d \in Slots : ~Active(d)
  /\ CronTick(c)

\* cron.schedule('59 23 * * *', ...) at 23:59.
DailyTickNames(c) ==
  /\ clock = "at2359"
  /\ ~TickFired
  /\ \A d \in Slots : ~Active(d)
  /\ DailyTick(c)

\* The time of the next tick comes.  The cycle of 23:40 may still be running
\* at 23:59.
NextTick ==
  /\ alive
  /\ TickFired
  /\ clock = "23:40" \/ \A d \in Slots : ~Active(d)
  /\ TickAfter(clock) # clock
  /\ clock' = TickAfter(clock)
  /\ UNCHANGED <<variant, daysFolderId, alive, mainPc, runs, shared, cyc, poll, rot, op>>

NextNames ==
  \/ NextTick
  \/ \E c \in Slots : CronTickNames(c)
  \/ \E c \in Slots : DailyTickNames(c)
  \/ \E c \in Slots : CycleStep(c)

SpecNames == InitNames /\ [][NextNames]_vars

(***************************************************************************)
(* Claims about runBackupCycle.                                            *)
(***************************************************************************)
Returns(c) == cyc[c].pc \in Terminal

\* C1 (as claimed): whatever the outcome of runBackupCycle, the staging file
\* the cycle created no longer exists once the cycle has returned.
C1_StagingCleanAfterReturn ==
  \A c \in Slots : Returns(c) => ~cyc[c].leftStaging

\* C2 (as claimed): in every cycle that obtained a backup id, exactly one
\* delete request for that id is issued to the origin system.
C2_ExactlyOneDelete ==
  \A c \in Slots : (Returns(c) /\ cyc[c].backupId # Null) => cyc[c].deletes = 1

\* C3 (as claimed): at most one backup cycle is active at any time.
C3_MutualExclusion ==
  Cardinality({c \in Slots : Active(c)}) <= 1

\* C5 (as claimed): when the pre-creation rotation is over and the create
\* request is about to be sent, the origin holds at most limit - 1 backups.
C5_RoomBeforeCreate ==
  \A c \in Slots : cyc[c].pc = "create" => Len(origin) <= OriginLimit - 1

\* C8: when the download succeeded and the upload to the main folder throws,
\* the cycle issues the origin delete for its backup id, the staging file is
\* gone when the cycle returns, and the cycle ends failed without reporting
\* completion.
C8_UploadFailureCompensated ==
  \A c \in Slots :
    (Returns(c) /\ cyc[c].threwAt = "upload") =>
      /\ cyc[c].deletes = 1
      /\ cyc[c].pc = "failed"
      /\ ~cyc[c].leftStaging

\* C8, restricted to the cycles whose catch-block unlink does not throw: the
\* delete is issued once, the file is removed and the cycle ends failed.
C8_CompensatedWhenUnlinkSucceeds ==
  \A c \in Slots :
    (Returns(c) /\ cyc[c].threwAt = "upload") =>
      /\ cyc[c].deletes = 1
      /\ cyc[c].pc # "done"
      /\ (~cyc[c].unlinkThrew => (cyc[c].pc = "failed" /\ ~cyc[c].leftStaging))

C8_Witness ==
  \E c \in Slots :
    /\ cyc[c].pc = "failed" /\ cyc[c].threwAt = "upload" /\ cyc[c].staged
    /\ cyc[c].deletes = 1 /\ ~cyc[c].leftStaging /\ cyc[c].localPath \notin staging

\* C9 (as claimed): when the create request throws, the cycle ends failed with
\* no delete call at all issued to the origin system and no staging file.
C9_NoDeleteCallAtAll ==
  \A c \in Slots :
    (Returns(c) /\ cyc[c].threwAt = "create") =>
      (cyc[c].pc = "failed" /\ cyc[c].originDeletes = 0 /\ ~cyc[c].staged)

\* C9 (amended): when the create request throws, the cycle ends failed, no
\* backup id was obtained, no delete is issued for a backup of this cycle (no
\* compensation delete), no staging path is assigned and no staging file is
\* created; the only delete call the cycle can have issued is the one
\* pre-creation rotation delete of the oldest existing backup.
C9_NoCompensationAfterCreateFailure ==
  \A c \in Slots :
    (Returns(c) /\ cyc[c].threwAt = "create") =>
      /\ cyc[c].pc = "failed"
      /\ cyc[c].backupId = Null
      /\ cyc[c].deletes = 0
      /\ cyc[c].originDeletes <= 1
      /\ cyc[c].localPath = NoPath
      /\ ~cyc[c].staged

C9_Witness ==
  \E c \in Slots :
    /\ cyc[c].pc = "failed" /\ cyc[c].threwAt = "create"
    /\ cyc[c].originDeletes = 1 /\ cyc[c].deletes = 0

\* C10: deleteBackupFromPtero never raises to runBackupCycle: no cycle has the
\* delete as the step that threw, and a cycle whose delete was rejected by the
\* origin, with no step having thrown, is at the step after the delete (the
\* main-folder cleanup in index.js) or has completed.
C10_DeleteNeverRaises ==
  \A c \in Slots :
    /\ cyc[c].threwAt # "deletePtero"
    /\ (cyc[c].deleteRejected /\ cyc[c].threwAt = "") =>
         cyc[c].pc \in {"cleanupMain", "done"}

C10_Witness ==
  \E c \in Slots :
    cyc[c].deleteRejected /\ cyc[c].threwAt = "" /\ cyc[c].pc = "done"
(***************************************************************************)
(* Claims about the rotation of a Drive folder.                            *)
(***************************************************************************)
Max0(n) == IF n > 0 THEN n ELSE 0
Min(a, b) == IF a < b THEN a ELSE b

\* C4: a cleanup that ran to its end on a listing of L files with limit M has
\* deleted exactly max(0, L - M) files, each of them no newer than any file it
\* kept, and the folder holds exactly min(L, M) files, all of them files of
\* the listing.
C4_RetentionAtTier ==
  rot.pc = "done" =>
    /\ Cardinality(rot.deleted) = Max0(Len(rot.before) - rot.max)
    /\ Len(rot.files) = Min(Len(rot.before), rot.max)
    /\ Range(rot.files) \cup rot.deleted = Range(rot.before)
    /\ Range(rot.files) \cap rot.deleted = {}
    /\ \A d \in rot.deleted : \A f \in Range(rot.files) :
         d.createdTime <= f.createdTime

\* Creation times [1,2,3,4] with limit 3: exactly the file of time 1 is deleted.
C4_Witness ==
  /\ rot.pc = "done"
  /\ rot.max = maxBackups
  /\ Len(rot.before) = 4
  /\ {f.createdTime : f \in Range(rot.before)} = {1, 2, 3, 4}
  /\ {f.createdTime : f \in rot.deleted} = {1}
  /\ Cardinality(rot.deleted) = 1

(***************************************************************************)
(* Claims about the poll loop.                                             *)
(***************************************************************************)
PollElapsedMs == poll.t - poll.startTime

\* C6: the timeout error is raised only when the time since polling began
\* exceeds pollTimeout, and no later than one poll interval plus the last
\* status read after it; while every read returns "in progress" the loop ends
\* in no other way, and no status request is sent once the timeout has passed.
C6_TimeoutBoundary ==
  /\ poll.pc = "timeout" =>
       /\ PollElapsedMs > pollTimeout
       /\ PollElapsedMs <= pollTimeout + pollInterval + poll.latency
  /\ (poll.allInProgress /\ poll.pc \in {"returned", "failed", "timeout"}) =>
       poll.pc = "timeout"
  /\ poll.pc \in {"reading", "sleeping"} => poll.topAt - poll.startTime <= pollTimeout

C6_Witness ==
  poll.pc = "timeout" /\ poll.allInProgress /\ poll.status = "pending"

\* C7 (as claimed): a 'failed' reading is tolerated only while the elapsed
\* polling time is at most the 60 s grace window: a 'failed' reading obtained
\* later aborts the loop.
C7_FailedToleratedOnlyInsideGrace ==
  (poll.status = "failed" /\ poll.pc = "sleeping") =>
     PollElapsedMs <= graceSeconds * 1000

\* C7 (amended): a 'failed' reading is tolerated exactly when the elapsed time
\* computed at the top of its loop iteration (before the status request is
\* sent, rounded to whole seconds) is at most 60, and aborts the loop with the
\* backup-failed error otherwise; a tolerated 'failed' reading does not keep a
\* later 'succeeded' reading from returning.
C7_GraceMeasuredAtLoopTop ==
  /\ poll.status = "failed" => poll.pc \in {"sleeping", "failed"}
  /\ (poll.status = "failed" /\ poll.pc = "sleeping") => poll.elapsed <= graceSeconds
  /\ poll.pc = "failed" => (poll.status = "failed" /\ poll.elapsed > graceSeconds)
  /\ poll.elapsed = RoundToSeconds(poll.topAt - poll.startTime)
  /\ poll.status = "succeeded" => poll.pc = "returned"

\* 'failed' read inside the grace window, then 'succeeded' at 40 s.
C7_Witness ==
  /\ poll.pc = "returned"
  /\ poll.toleratedFailed
  /\ PollElapsedMs = 40000
(***************************************************************************)
(* Claims about errors in rotation and cleanup.                            *)
(***************************************************************************)
\* The files of the deletion set a delete request was sent for: the ones
\* deleted, and the one whose delete failed.
RotAttempted ==
  rot.deleted \cup
    (IF rot.failedAt > 0
     THEN {FilesToDelete(rot.before, rot.max)[rot.failedAt]} ELSE {})

\* C11: when the delete of one file of the deletion set fails, a delete is
\* still attempted for every other file of the set.
C11_EveryDeletionAttempted ==
  rot.failedAt > 0 => RotAttempted = Range(FilesToDelete(rot.before, rot.max))
\* The steps that run after the upload to the main folder succeeded and whose
\* errors are cleanup errors: a rotation delete, the local unlink.
CleanupSteps == {"cleanupMainDelete", "cleanupDaysDelete", "unlink"}

\* C12: when download and main upload succeeded, an error in a rotation
\* delete, in the origin delete or in the local unlink is swallowed: the cycle
\* still ends succeeded.
C12_CleanupErrorsSwallowed ==
  \A c \in Slots :
    (Returns(c) /\ (cyc[c].threwAt \in CleanupSteps
                    \/ (cyc[c].threwAt = "" /\ cyc[c].deleteRejected))) =>
      cyc[c].pc = "done"

\* C13: on the failure path the origin delete is attempted whenever an id was
\* obtained, the staging file is unlinked whenever it exists, and no failure of
\* either compensation escapes runBackupCycle as an exception.
C13_IndependentCompensations ==
  \A c \in Slots :
    (Returns(c) /\ cyc[c].threwAt # "") =>
      /\ cyc[c].backupId # Null => cyc[c].deletes >= 1
      /\ cyc[c].pc = "failed"
      /\ ~cyc[c].leftStaging \/ cyc[c].unlinkThrew
(***************************************************************************)
(* Claims about the process, the archive branch and the order of steps.    *)
(***************************************************************************)
\* C15: no failure inside a triggered operation ends the process or leaves
\* the operation as a rejected promise: the process stays alive.
C15_NeverCrashes ==
  /\ alive
  /\ \A c \in Slots : cyc[c].pc # "threw"

\* C17: a cycle takes the archive branch (upload to the days folder and its
\* rotation) only when the archive flag it was started with is set.
C17_ArchiveBranchFollowsFlag ==
  \A c \in Slots :
    cyc[c].pc \in {"uploadDays", "cleanupDays"} => cyc[c].isDailyBackup

\* C19: in a cycle without failure the origin delete is sent only after the
\* upload to the main folder, and the rotation of the main folder runs before
\* the origin delete.
BeforeMainUpload == {"list", "deleteOldest", "create", "poll", "geturl", "download", "upload"}

C19_SuccessPathOrder ==
  \A c \in Slots :
    cyc[c].threwAt = "" =>
      /\ cyc[c].pc \in BeforeMainUpload => cyc[c].deletes = 0
      /\ cyc[c].pc = "cleanupMain" => cyc[c].deletes = 0
\* C16: when the process is shut down while a cycle holds a backup id and has
\* not returned, the backup of the cycle has been deleted from the origin and
\* its staging file is gone by the time the process has exited.
C16_ShutdownRunsCompensation ==
  mainPc = "exited" =>
    \A c \in Slots :
      (Active(c) /\ cyc[c].backupId # Null) =>
        /\ cyc[c].backupId \notin Range(origin)
        /\ cyc[c].localPath \notin staging
\* Every cycle started so far is still on record (no slot was used twice).
EveryCycleOnRecord == runs = Cardinality({c \in Slots : cyc[c].pc # "idle"})

\* C18: when 23:59 has passed on a day on which the process ran cycles with a
\* days folder configured, every cycle has returned and no step of any of
\* them failed, the days folder holds a backup uploaded by the process and at
\* most maxDailyBackups files.
C18_DailyArchiveHappens ==
  (/\ clock = "after2359"
   /\ alive
   /\ daysFolderId
   /\ runs >= 1
   /\ EveryCycleOnRecord
   /\ \A c \in Slots : /\ ~Active(c)
                       /\ cyc[c].threwAt = ""
                       /\ ~cyc[c].deleteRejected) =>
    /\ \E i \in 1..Len(daysFolder) : daysFolder[i] > 0
    /\ Len(daysFolder) <= maxDailyBackups

\* C18 for src/unnamed/part_000 alone, where '59 23 * * *' is scheduled.
C18_DailyArchiveHappensWithDailyCron ==
  variant = "part000" => C18_DailyArchiveHappens
(***************************************************************************)
(* Claims about the operations of the command listener.                    *)
(***************************************************************************)
OpReturns == op.pc \in OpTerminal

\* C14: when restoreBackupFromDrive or diskDownloadFromDrive returns, by
\* success or after a failed download or upload, its staging file is gone.
C14_RestoreLeavesNoStaging ==
  (op.kind \in FromDrive /\ OpReturns) => ~op.leftStaging

\* C14, restricted to the operations whose catch-block unlink does not
\* throw.
C14_NoStagingWhenUnlinkSucceeds ==
  (op.kind \in FromDrive /\ OpReturns /\ ~op.unlinkThrew) =>
     (~op.leftStaging /\ op.pc # "threw")

\* C20: after an operation that adds a file to the main folder has completed
\* without error, the main folder holds at most maxBackups files (and the days
\* folder at most maxDailyBackups after an archive cycle).
C20_RetentionAfterAddition ==
  /\ (op.kind \in {"dskup", "driup"} /\ op.pc = "done") =>
        Len(mainFolder) <= maxBackups
  /\ \A c \in Slots : cyc[c].pc = "done" =>
        /\ Len(mainFolder) <= maxBackups
        /\ cyc[c].isDailyBackup => Len(daysFolder) <= maxDailyBackups

\* C24 (as claimed): whatever the outcome of diskUploadToServer, when it
\* returns a delete has been issued for the backup it created, and the
\* staging file it created no longer exists (poll timeout, failed download
\* and failed upload included).
C24_DiskUploadLeavesNothing ==
  (op.kind = "dskup" /\ OpReturns) =>
     /\ op.backupId # Null => op.deletes >= 1
     /\ ~op.leftStaging

(***************************************************************************)
(* Claims about the names of the uploaded files.                           *)
(***************************************************************************)
NamesIn(folder, files) == [i \in 1..Len(files) |-> fileName[<<folder, files[i]>>]]

Distinct(s) == \A i, j \in 1..Len(s) : i # j => s[i] # s[j]

\* C21 (as claimed): after any sequence of backup cycles, cycles that start
\* 20 minutes apart within one clock hour included, no two files of the main
\* folder and no two files of the days folder carry the same name.
C21_NamesUniqueInFolder ==
  /\ Distinct(NamesIn("main", mainFolder))
  /\ Distinct(NamesIn("days", daysFolder))

(***************************************************************************)
(* Claims about the poll loop.                                             *)
(***************************************************************************)
\* C22 (as claimed): polling is never a spin.  Whatever the payload of a
\* status read (in progress, failed, succeeded with completedAt, succeeded
\* without completedAt), the next status request is not sent by the step that
\* handles the answer: a sleep of one poll interval lies between them.
C22_SleepBetweenReads ==
  [][poll.pc = "reading" => poll'.pc # "reading"]_vars

\* C26: the download locator is requested only after a status read answered
\* succeeded with completedAt; after a timeout, a fatal failed reading or a
\* failed status request it is not requested.
C26_LocatorOnlyAfterSuccess ==
  /\ poll.caller = "locator" => (poll.pc = "returned" /\ poll.status = "succeeded")
  /\ poll.pc \in {"timeout", "failed", "error"} => poll.caller # "locator"

\* C27: no status read is issued before the initial delay of 30 s has passed
\* since waitForBackupCompletion was called: while the delay runs nothing has
\* been requested, and every status request is sent at or after 30 s.
C27_InitialGraceDelay ==
  /\ poll.pc = "initialDelay" => (poll.status = "none" /\ poll.t = 0)
  /\ poll.status # "none" => (poll.topAt >= initialDelay /\ poll.startTime = initialDelay)

\* C27 witness: the first status request is outstanding, sent at 30 s.
C27_Witness ==
  poll.pc = "reading" /\ poll.status = "pending" /\ poll.topAt = initialDelay

\* C35: the timeout budget runs from the end of the initial delay.  A timeout
\* is raised only when more than initialDelay + pollTimeout has passed since
\* the call, and a status request is sent only while the polling time, tested
\* just before it, does not exceed pollTimeout.
C35_TimeoutClockAndLastRead ==
  /\ poll.pc = "timeout" => poll.t > initialDelay + pollTimeout
  /\ poll.pc = "reading" => poll.topAt <= initialDelay + pollTimeout
  /\ poll.pc \in {"reading", "timeout"} => poll.topAt = poll.t

\* C35 witness: the loop timed out 250 ms past the budget, at the loop top
\* that followed a read answered without a sleep.
C35_Witness ==
  /\ poll.pc = "timeout"
  /\ poll.t = initialDelay + pollTimeout + 250
  /\ poll.caller = "waiting"

\* C26 witness: the locator is requested after a run of reads that were not
\* all in progress and ended with succeeded with completedAt.
C26_Witness ==
  poll.caller = "locator" /\ poll.status = "succeeded" /\ ~poll.allInProgress

(***************************************************************************)
(* Claims about the requests of one cycle.                                 *)
(***************************************************************************)
\* C23: no retry inside one cycle.  One invocation of runBackupCycle issues at
\* most one create, one download-locator request, one download and one upload
\* per storage tier; and once a step of the invocation has failed, none of
\* these requests is issued again by it.
C23_NoRetryInsideCycle ==
  /\ [](\A c \in Slots : \A k \in Requests : cyc[c].issued[k] <= 1)
  /\ [][\A c \in Slots :
          (cyc[c].threwAt # "" /\ cyc'[c].run = cyc[c].run)
            => cyc'[c].issued = cyc[c].issued]_vars

\* C29: a failure before the creation is terminal.  When the list request or
\* the delete of the oldest backup failed, the cycle has ended as failed
\* without a create request, without a compensating delete and without a
\* staging file.
C29_FailureBeforeCreateIsTerminal ==
  \A c \in Slots :
    cyc[c].threwAt \in {"list", "deleteOldest"} =>
      /\ cyc[c].pc = "failed"
      /\ cyc[c].issued["create"] = 0
      /\ cyc[c].backupId = Null
      /\ cyc[c].deletes = 0
      /\ cyc[c].localPath = NoPath /\ ~cyc[c].staged /\ ~cyc[c].leftStaging

\* C29 witness: a cycle has ended at the failed delete of the oldest backup,
\* the origin still holding every backup it listed.
C29_Witness ==
  \E c \in Slots :
    /\ cyc[c].pc = "failed" /\ cyc[c].threwAt = "deleteOldest"
    /\ cyc[c].originDeletes = 1
    /\ Len(origin) >= OriginLimit

\* C30 (as claimed): one download feeds both tiers.  While the archive upload is
\* outstanding the cycle has downloaded once, its staging file (the one the
\* main upload read) is still there, and no second download is made for the
\* archive upload or after it.
C30_OneDownloadFeedsBothTiers ==
  \A c \in Slots :
    /\ cyc[c].pc = "uploadDays" =>
         /\ cyc[c].issued["download"] = 1 /\ cyc[c].issued["uploadMain"] = 1
         /\ cyc[c].localPath = StagingPath(cyc[c].stamp)
         /\ Exists(cyc[c].localPath)
    /\ cyc[c].issued["uploadDays"] = 1 => cyc[c].issued["download"] = 1

\* C23 witness: a cycle whose main upload failed has returned, having issued
\* each of create, locator, download and main upload once.
C23_Witness ==
  \E c \in Slots :
    /\ cyc[c].pc = "failed"
    /\ cyc[c].threwAt = "upload"
    /\ \A k \in Requests \ {"uploadDays"} : cyc[c].issued[k] = 1

(***************************************************************************)
(* Claims about invocations that run at the same time.                     *)
(***************************************************************************)
\* C25 (as claimed): a staging file has one owner.  The staging paths of two
\* invocations that are running at the same time (two cycles started in the
\* same second included) never coincide, and neither does the path of a
\* running cycle with that of a running operation of the command listener.
C25_StagingPathsExclusive ==
  /\ \A c, d \in Slots :
        (c # d /\ Active(c) /\ Active(d) /\ cyc[c].localPath # NoPath)
          => cyc[c].localPath # cyc[d].localPath
  /\ \A c \in Slots :
        (Active(c) /\ op.pc \notin OpTerminal \cup {"idle"} /\ op.localPath # NoPath)
          => cyc[c].localPath # op.localPath

(***************************************************************************)
(* Claims about the order of the listings.                                 *)
(***************************************************************************)
\* The sequences that list every element of the set S once.
RECURSIVE Orderings(_)
Orderings(S) ==
  IF S = {} THEN {<<>>}
  ELSE UNION {{<<x>> \o q : q \in Orderings(S \ {x})} : x \in S}

\* C28, at the origin: whatever the order in which GET /backups lists the
\* backups, the backup deleted before the create is the same one.
C28_OriginRotationIgnoresListingOrder ==
  \A q \in Orderings(Range(ListPteroBackups)) :
     q # <<>> => OldestBackup(q) = OldestBackup(ListPteroBackups)

\* C28 (as claimed): the set of files a rotation deletes is the same for
\* every permutation of the listing the service returned, at the origin and
\* in the Drive folders.
C28_RotationIgnoresListingOrder ==
  /\ C28_OriginRotationIgnoresListingOrder
  /\ rot.pc = "done" =>
       \A q \in Orderings(Range(rot.before)) :
          Range(FilesToDelete(q, rot.max)) = rot.deleted

(***************************************************************************)
(* Claims about what the operations leave alone.                           *)
(***************************************************************************)
\* The steps of an operation that await a request to the origin system.
OriginSteps ==
  {"create", "poll", "geturl", "download", "deletePtero", "getUploadUrl", "postFile"}

\* C31: driveUploadFromLocal bypasses the origin system.  It is never at a
\* step that awaits an origin request and holds no backup id; none of its
\* steps changes the origin or the given local file; and when the local file
\* does not exist it ends failed without an upload to the main folder.
C31_UploadLocalBypassesOrigin ==
  /\ [](op.kind = "driup" =>
          /\ op.pc \notin OriginSteps
          /\ op.backupId = Null /\ op.deletes = 0
          /\ op.threwAt = "notFound" =>
                (op.pc = "failed" /\ OpId(op.n) \notin Range(mainFolder)))
  /\ [][(op'.kind = "driup" /\ op' # op) =>
          /\ origin' = origin
          /\ staging' = staging
          /\ ~LocalFileFound(staging) => mainFolder' = mainFolder]_vars

\* C31 witness: driveUploadFromLocal has uploaded the local file, which is
\* still there.
C31_Witness ==
  /\ op.kind = "driup" /\ op.pc = "done"
  /\ OpId(op.n) \in Range(mainFolder)
  /\ LocalFileFound(staging)

(***************************************************************************)
(* Claims about the triggers.                                              *)
(***************************************************************************)
\* C32: trigger-to-flag mapping.  A step that starts a cycle with the archive
\* flag is the 23:59 tick, which exists only with a days folder configured;
\* a step that starts a cycle without the flag is the initial call of main,
\* the 20-minute tick or the 'backup' command.
C32_TriggerToFlag ==
  [][\A c \in Slots :
       cyc'[c].run # cyc[c].run =>
         /\ cyc'[c].isDailyBackup => (DailyTick(c) /\ daysFolderId)
         /\ ~cyc'[c].isDailyBackup =>
               (MainInitialBackup \/ CronTick(c) \/ ManualBackup(c))
         /\ (MainInitialBackup \/ CronTick(c) \/ ManualBackup(c)) =>
               ~cyc'[c].isDailyBackup]_vars

\* C32 witness: a cycle started by the 23:59 tick is running.
C32_Witness ==
  \E c \in Slots : Active(c) /\ cyc[c].isDailyBackup /\ daysFolderId

(***************************************************************************)
(* Claims about the rotation of the origin next to other invocations.      *)
(***************************************************************************)
\* The steps at which an invocation is polling for or downloading the backup
\* it created.
InFlightSteps == {"poll", "geturl", "download"}

\* The backup x was created by an invocation that is still polling for it or
\* downloading it.
InFlight(x) ==
  \/ \E d \in Slots : cyc[d].backupId = x /\ cyc[d].pc \in InFlightSteps
  \/ op.backupId = x /\ op.pc \in InFlightSteps

\* C33 (as claimed): the rotation that precedes a create never deletes an
\* in-flight backup of another invocation: a backup removed from the origin
\* by the delete-oldest step of a cycle is not one that another running cycle
\* or a running diskUploadToServer created and is still polling or downloading.
C33_RotationSparesInFlight ==
  [][\A c \in Slots :
       (cyc[c].pc = "deleteOldest" /\ cyc'[c].pc # "deleteOldest") =>
          \A x \in Range(origin) \ Range(origin') : ~InFlight(x)]_vars

(***************************************************************************)
(* Termination.  Every request of a cycle is answered or fails in the end, *)
(* and timers fire: a step of a running cycle that can be taken is taken.  *)
(***************************************************************************)
SpecLive == Spec /\ \A c \in Slots : WF_vars(CycleStep(c))

\* The poll loop with every request answered and every timer firing.
SpecPollLive == SpecPoll /\ WF_vars(NextPoll)

\* C34, the poll loop alone: whatever the status payloads (in progress for
\* ever and succeeded without completedAt for ever included),
\* waitForBackupCompletion returns or throws to its caller.
C34_PollLoopEnds == <>(poll.caller # "waiting")

\* C34, apart from the end of the process: every invocation of
\* runBackupCycle eventually returns, unless the process has ended under it.
C34_ReturnsUnlessProcessExits ==
  \A c \in Slots : Active(c) ~> (Returns(c) \/ ~alive)

\* C34 (as claimed): every invocation of runBackupCycle eventually returns,
\* completed or failed.
C34_EveryCycleReturns ==
  \A c \in Slots : Active(c) ~> Returns(c)

(***************************************************************************)
(* C36: the initial cycle runs alone.                                      *)
(***************************************************************************)
\* C36: while the initial cycle (the first invocation of runBackupCycle, made
\* by main) is running, main is still at its await, so that no schedule and
\* no command listener is registered, no other invocation has been started
\* and no other cycle is running.
C36_InitialCycleRunsAlone ==
  \A c \in Slots :
    (cyc[c].run = 1 /\ Active(c)) =>
      /\ mainPc = "initial"
      /\ runs = 1
      /\ \A d \in Slots \ {c} : ~Active(d)

\* C36 witness: the initial cycle has returned, the schedules are registered
\* and a trigger has started the second invocation, which is running.
C36_Witness ==
  /\ mainPc = "scheduled"
  /\ \E c \in Slots : cyc[c].run = 2 /\ Active(c)
  /\ \A c \in Slots : cyc[c].run # 1 \/ ~Active(c)

(***************************************************************************)
(* C37: the operations that restore from the Drive.                        *)
(***************************************************************************)
\* The steps at which an operation awaits a request about an origin backup.
OriginBackupSteps == {"create", "poll", "geturl", "download", "deletePtero"}

\* The steps of uploadBackupToServer.
OriginUploadSteps == {"getUploadUrl", "postFile"}

\* C37: restoreBackupFromDrive and diskDownloadFromDrive read the Drive and
\* write the origin's files, never the reverse.  They are never at a step that
\* creates, polls or deletes an origin backup and never at the Drive upload;
\* none of their steps changes the Drive folders, the names of the files in
\* them or the backups of the origin; and they are at the upload to the origin
\* only with the download into the staging file completed.
C37_RestoreReadsTierWritesOrigin ==
  /\ [](op.kind \in FromDrive =>
          /\ op.pc \notin OriginBackupSteps \cup {"upload"}
          /\ op.backupId = Null /\ op.deletes = 0
          /\ op.pc \in OriginUploadSteps =>
                (op.downloaded /\ op.localPath \in staging)
          /\ (op.pc = "done" /\ op.threwAt = "") => op.downloaded)
  /\ [][(op'.kind \in FromDrive /\ op' # op) =>
          /\ origin' = origin
          /\ mainFolder' = mainFolder
          /\ daysFolder' = daysFolder
          /\ fileName' = fileName]_vars

\* C37 witness: a restore from the Drive has downloaded the file, uploaded it
\* to the origin and returned, with files in the main folder and backups on
\* the origin that it could have touched.
C37_Witness ==
  /\ op.kind \in FromDrive /\ op.pc = "done" /\ op.threwAt = ""
  /\ op.downloaded
  /\ mainFolder # <<>> /\ origin # <<>>

(***************************************************************************)
(* C38: runBackupCycle asked to archive.  The function is called with      *)
(* either value of its parameter (part_000) or with the wall clock before  *)
(* or in the minute 23:59 (index.js), with and without a days folder.      *)
(***************************************************************************)
InitArchive ==
  /\ variant \in Variants
  /\ daysFolderId \in BOOLEAN
  /\ alive = TRUE
  /\ mainPc = "scheduled"
  /\ runs = 0
  /\ \E n \in {0, MaxOriginInit} : origin = OldestFirst(n)
  /\ mainFolder = NewestFirst(maxBackups)
  /\ daysFolder = NewestFirst(maxDailyBackups)
  /\ fileName = InitialNames
  /\ staging = {}
  /\ cyc = [c \in Slots |-> IdleCycle]
  /\ poll = PollIdle
  /\ rot = RotIdle
  /\ clock \in {"before2359", "at2359"}
  /\ op = OpIdle

\* runBackupCycle(isDailyBackup = false) of part_000 called with a value of
\* its parameter, one call at a time; runBackupCycle() of index.js.
CallRunBackupCycle(c) ==
  /\ \A d \in Slots : ~Active(d)
  /\ \E flag \in BOOLEAN :
       /\ variant = "index" => ~flag
       /\ StartCycle(c, flag)
  /\ UNCHANGED mainPc

NextArchive ==
  \/ \E c \in Slots : CallRunBackupCycle(c)
  \/ \E c \in Slots : CycleStep(c)

SpecArchive == InitArchive /\ [][NextArchive]_vars

\* The cycle is asked to archive: called with isDailyBackup true (part_000),
\* or running with isDailyBackupTime() true (index.js).
AskedToArchive(c) ==
  /\ cyc[c].run > 0
  /\ IF variant = "part000" THEN cyc[c].isDailyBackup ELSE clock = "at2359"

\* C38: a cycle asked to archive with no days folder configured is never at
\* the upload into the days folder nor at its rotation, issues no upload to
\* it and leaves the days folder as it was; when no step throws it completes
\* as a regular cycle does, with one upload to the main folder, the delete of
\* its backup issued once to the origin and no staging file left.
C38_ArchiveSkippedWithoutFolder ==
  \A c \in Slots :
    (AskedToArchive(c) /\ ~daysFolderId) =>
      /\ cyc[c].pc \notin {"uploadDays", "cleanupDays"}
      /\ cyc[c].issued["uploadDays"] = 0
      /\ daysFolder = NewestFirst(maxDailyBackups)
      /\ cyc[c].threwAt = "" => cyc[c].pc # "failed"
      /\ cyc[c].pc = "done" =>
           /\ cyc[c].issued["uploadMain"] = 1
           /\ cyc[c].deletes = 1
           /\ ~cyc[c].leftStaging

\* C38 witness: a cycle asked to archive, with no days folder configured, has
\* completed: the main folder holds its upload, its backup is gone from the
\* origin and its staging file is deleted.
C38_Witness ==
  \E c \in Slots :
    /\ AskedToArchive(c) /\ ~daysFolderId
    /\ cyc[c].pc = "done"
    /\ cyc[c].run \in Range(mainFolder)
    /\ cyc[c].backupId \notin Range(origin)
    /\ cyc[c].staged /\ cyc[c].localPath \notin staging

=============================================================================
